---- MODULE Spec2Model ----
(***************************************************************************)
(* Model of src/app.py: the ECP calculator calculate_ecp_uvc, the tables   *)
(* APHERESIS_SETTINGS and BAG_TYPES it reads, and the Streamlit script     *)
(* main() that feeds it widget values and plots the viability curves.      *)
(*                                                                         *)
(* Numbers.  Python floats are modelled as decimal fixed-point numbers     *)
(* with four fractional digits: the integer v stands for v / SCALE.  Every *)
(* product and quotient is rounded down to that grid, the way a float      *)
(* operation is rounded to the float grid.  The one float that can be      *)
(* non-finite for finite arguments, exp_time, is a tagged value.           *)
(***************************************************************************)
EXTENDS Integers, FiniteSets, Sequences, TLC

\* ------------------------------------------------------------ arithmetic

\* The fixed-point unit: v stands for v / SCALE.
SCALE == 100 * 100

\* The decimal literal n/d (0.3 is Dec(3, 10)).
Dec(n, d) == (n * SCALE) \div d

ONE == Dec(1, 1)

\* a * b, rounded down.  Split so that no intermediate exceeds 32 bits.
Mul(a, b) ==
    LET qa == a \div SCALE
        ra == a % SCALE
        qb == b \div SCALE
        rb == b % SCALE
    IN  qa * qb * SCALE + qa * rb + ra * qb + (ra * rb) \div SCALE

RECURSIVE DivDigits(_, _, _)
\* The k fractional decimal digits of r / b, for 0 <= r < b.
DivDigits(r, b, k) ==
    IF k = 0 THEN 0
    ELSE LET r10 == r * 10
             p   == IF k = 1 THEN 1 ELSE IF k = 2 THEN 10 ELSE IF k = 3 THEN 100 ELSE 1000
         IN  (r10 \div b) * p + DivDigits(r10 % b, b, k - 1)

\* a / b for b > 0, rounded down (long division, four fractional digits).
Div(a, b) == (a \div b) * SCALE + DivDigits(a % b, b, 4)

Abs(x) == IF x < 0 THEN -x ELSE x

\* Python's builtin max(a, b): b only when b > a.
Max(a, b) == IF b > a THEN b ELSE a

RECURSIVE SqrtSearch(_, _, _)
\* The largest r in lo..hi with r * r <= x (on the fixed-point grid).
SqrtSearch(x, lo, hi) ==
    IF lo >= hi THEN lo
    ELSE LET mid == (lo + hi + 1) \div 2
         IN  IF Mul(mid, mid) <= x THEN SqrtSearch(x, mid, hi)
             ELSE SqrtSearch(x, lo, mid - 1)

\* np.sqrt on x >= 0.
Sqrt(x) == SqrtSearch(x, 0, Max(x, ONE))

RECURSIVE ExpSeries(_, _, _, _)
\* sum of the Taylor terms y^n / n! from term number n on; term is y^(n-1)/(n-1)!.
ExpSeries(y, term, n, last) ==
    IF n > last \/ term = 0 THEN 0
    ELSE LET t == Mul(term, y) \div n
         IN  t + ExpSeries(y, t, n + 1, last)

\* e^y for y >= 0.
ExpPos(y) == ONE + ExpSeries(y, ONE, 1, 40)

\* np.exp: e^x, for x of either sign.
Exp(x) == IF x >= 0 THEN ExpPos(x) ELSE Div(ONE, ExpPos(-x))

\* ---------------------------------------------------------------- tables

\* APHERESIS_SETTINGS as the module defines it.
InitialSettings ==
    "Spectra Optia" :>
        [interface_range      |-> <<Dec(5, 10), Dec(2, 1)>>,
         flow_range           |-> <<Dec(40, 1), Dec(70, 1)>>,
         plasma_removal_range |-> <<Dec(5, 1), Dec(25, 1)>>,
         acd_ratio_range      |-> <<Dec(12, 1), Dec(16, 1)>>,
         hct_impact           |-> Dec(3, 10),
         rbc_base_contam      |-> Dec(2, 1)]
    @@ "Haemonetics" :>
        [interface_range      |-> <<Dec(5, 10), Dec(2, 1)>>,
         flow_range           |-> <<Dec(40, 1), Dec(65, 1)>>,
         plasma_removal_range |-> <<Dec(5, 1), Dec(20, 1)>>,
         acd_ratio_range      |-> <<Dec(12, 1), Dec(15, 1)>>,
         hct_impact           |-> Dec(7, 10),
         rbc_base_contam      |-> Dec(5, 1)]

\* BAG_TYPES as the module defines it.
InitialBags ==
    "Spectra Optia (Polyethylene)" :>
        [absorption |-> Dec(9, 10), scattering |-> Dec(55, 10), thickness |-> Dec(20, 100)]
    @@ "Haemonetics (PVC)" :>
        [absorption |-> Dec(13, 10), scattering |-> Dec(7, 1), thickness |-> Dec(25, 100)]

Systems  == DOMAIN InitialSettings
BagNames == DOMAIN InitialBags

\* np.pi, rounded down to the grid.
PI == Dec(31415, 10000)

\* --------------------------------------------------- calculate_ecp_uvc

\* HctEfficiency normalised to 45% instead of 40%.
HctEfficiencyAt45(params, hct) ==
    ONE - Div(Mul(params.hct_impact, hct - Dec(45, 1)), Dec(40, 1))

\* hct_efficiency = 1 - params['hct_impact'] * (hct - 40)/40
HctEfficiency(params, hct) ==
    ONE - Div(Mul(params.hct_impact, hct - Dec(40, 1)), Dec(40, 1))

\* interface_factor = (1 - abs(interface_pos - 1.25)/1.25) * hct_efficiency
InterfaceFactor(interface_pos, hct_efficiency) ==
    Mul(ONE - Div(Abs(interface_pos - Dec(125, 100)), Dec(125, 100)), hct_efficiency)

\* FlowFactor measured from the top of the flow range instead of the bottom.
FlowFactorFromMax(params, flow_rate, hct_efficiency) ==
    Mul(Div(flow_rate - params.flow_range[2],
            params.flow_range[2] - params.flow_range[1]), hct_efficiency)

\* flow_factor = (flow_rate - lo) / (hi - lo) * hct_efficiency
FlowFactor(params, flow_rate, hct_efficiency) ==
    Mul(Div(flow_rate - params.flow_range[1],
            params.flow_range[2] - params.flow_range[1]), hct_efficiency)

\* purity_factor = 0.7 + (interface_pos * 0.15 * hct_efficiency)
PurityFactor(interface_pos, hct_efficiency) ==
    Dec(7, 10) + Mul(Mul(interface_pos, Dec(15, 100)), hct_efficiency)

\* mnc_conc = tlc * (lymph_percent/100) * 4 * flow_factor * interface_factor
MncConc(tlc, lymph_percent, flow_factor, interface_factor) ==
    Mul(Mul(Mul(Mul(tlc, Div(lymph_percent, Dec(100, 1))), Dec(4, 1)),
            flow_factor), interface_factor)

\* RbcContam with the sign of the plasma-removal term slipped.
RbcContamPlusPlasma(params, hct, plasma_removal) ==
    Mul(Mul(params.rbc_base_contam, Div(hct, Dec(40, 1))),
        ONE + Div(plasma_removal, Dec(25, 1)))

\* RbcContam with the hematocrit scaling left out.
RbcContamNoHct(params, hct, plasma_removal) ==
    Mul(params.rbc_base_contam, ONE - Div(plasma_removal, Dec(25, 1)))

\* rbc_contam = params['rbc_base_contam'] * (hct/40) * (1 - plasma_removal/25)
RbcContam(params, hct, plasma_removal) ==
    Mul(Mul(params.rbc_base_contam, Div(hct, Dec(40, 1))),
        ONE - Div(plasma_removal, Dec(25, 1)))

\* Attenuation with the thickness factor left out.
AttenuationNoThickness(a, s, d) == Sqrt(Mul(Mul(Dec(3, 1), a), a + s))

\* The attenuation exponent sqrt(3 * a * (a + s)) * d.
Attenuation(a, s, d) == Mul(Sqrt(Mul(Mul(Dec(3, 1), a), a + s)), d)

\* transmission = np.exp(-np.sqrt(3 * a * (a + s)) * d)
Transmission(a, s, d) == Exp(-Attenuation(a, s, d))

\* distance = 20 if use_hood else 15
Distance(use_hood) == IF use_hood THEN Dec(20, 1) ELSE Dec(15, 1)

\* effective_intensity = (lamp_power * 1000 * 0.85 * transmission) / (4 * np.pi * distance**2)
EffectiveIntensity(lamp_power, transmission, distance) ==
    Div(Mul(Mul(Mul(lamp_power, Dec(1000, 1)), Dec(85, 100)), transmission),
        Mul(Mul(Dec(4, 1), PI), Mul(distance, distance)))

\* shielding = (0.01 * mnc_conc) + (0.05 * rbc_contam * (hct/40))
Shielding(mnc_conc, rbc_contam, hct) ==
    Mul(Dec(1, 100), mnc_conc)
        + Mul(Mul(Dec(5, 100), rbc_contam), Div(hct, Dec(40, 1)))

\* The dose floor of max(1 - shielding, 0.3).
DoseFloor == Dec(3, 10)

\* ShieldingFactor without the floor.
ShieldingFactorUnclamped(shielding) == ONE - shielding

\* max(1 - shielding, 0.3)
ShieldingFactor(shielding) == Max(ONE - shielding, DoseFloor)

\* effective_dose = target_dose * transmission * max(1 - shielding, 0.3)
EffectiveDose(target_dose, transmission, shielding) ==
    Mul(Mul(target_dose, transmission), ShieldingFactor(shielding))

\* A float that may be non-finite: k is "fin", "inf", "-inf" or "nan".
Fin(v) == [k |-> "fin", v |-> v]
NonFin(k) == [k |-> k, v |-> 0]

\* numpy's float64 a / b for b >= 0: a zero divisor gives inf or nan (with a
\* RuntimeWarning), it does not raise.
NpDivide(a, b) ==
    IF b = 0
    THEN (IF a = 0 THEN NonFin("nan") ELSE IF a > 0 THEN NonFin("inf") ELSE NonFin("-inf"))
    ELSE Fin(Div(a, b))

\* exp_time = (effective_dose / (effective_intensity / 1000)) / 60
ExpTime(effective_dose, effective_intensity) ==
    LET q == NpDivide(effective_dose, Div(effective_intensity, Dec(1000, 1)))
    IN  IF q.k = "fin" THEN Fin(Div(q.v, Dec(60, 1))) ELSE q

\* How a call of calculate_ecp_uvc ends.  The function has no raise statement
\* and no check of its arguments: every call returns the result dict.
CallOutcome(r, SETTINGS) == "returned"

\* The dict calculate_ecp_uvc returns for the arguments r.
calculate_ecp_uvc(r, SETTINGS, BAGS) ==
    LET params             == SETTINGS[r.system]
        hct_efficiency     == HctEfficiency(params, r.hct)
        interface_factor   == InterfaceFactor(r.interface_pos, hct_efficiency)
        flow_factor        == FlowFactor(params, r.flow_rate, hct_efficiency)
        purity_factor      == PurityFactor(r.interface_pos, hct_efficiency)
        mnc_conc           == MncConc(r.tlc, r.lymph_percent, flow_factor, interface_factor)
        rbc_contam         == RbcContam(params, r.hct, r.plasma_removal)
        bag                == BAGS[r.bag_type]
        transmission       == Transmission(bag.absorption, bag.scattering, bag.thickness)
        distance           == Distance(r.use_hood)
        effective_intensity == EffectiveIntensity(r.lamp_power, transmission, distance)
        shielding          == Shielding(mnc_conc, rbc_contam, r.hct)
        effective_dose     == EffectiveDose(r.target_dose, transmission, shielding)
        exp_time           == ExpTime(effective_dose, effective_intensity)
    IN  [outcome             |-> CallOutcome(r, SETTINGS),
         mnc_conc            |-> mnc_conc,
         rbc_contam          |-> rbc_contam,
         purity_factor       |-> purity_factor,
         effective_dose      |-> effective_dose,
         exp_time            |-> exp_time,
         transmission        |-> transmission,
         effective_intensity |-> effective_intensity,
         hct_efficiency      |-> hct_efficiency,
         system              |-> r.system]

\* SettingsAfterCall for a call that scales the device's entry in place.
SettingsAfterCallScaled(SETTINGS, system) ==
    [SETTINGS EXCEPT ![system].rbc_base_contam = Mul(@, Dec(2, 1))]

\* The tables after a call: calculate_ecp_uvc only reads them.
SettingsAfterCall(SETTINGS, system) == SETTINGS
BagsAfterCall(BAGS, bag_type) == BAGS

\* ------------------------------------------------------------ main()

\* interface_default: 1.0, or for hct > 45: 0.8 (Haemonetics) / 1.0.
InterfaceDefault(hct, system) ==
    IF hct > Dec(45, 1)
    THEN (IF system = "Haemonetics" THEN Dec(8, 10) ELSE Dec(1, 1))
    ELSE Dec(1, 1)

\* flow_default: 50, or for hct > 45: 45 (Haemonetics) / 55.
FlowDefault(hct, system) ==
    IF hct > Dec(45, 1)
    THEN (IF system = "Haemonetics" THEN Dec(45, 1) ELSE Dec(55, 1))
    ELSE Dec(50, 1)

\* The plasma removal slider's value argument.
PlasmaDefault == Dec(15, 1)

\* acd_default: 13, or for hct > 45: 12 (Haemonetics) / 14.
AcdDefault(hct, system) ==
    IF hct > Dec(45, 1)
    THEN (IF system = "Haemonetics" THEN Dec(12, 1) ELSE Dec(14, 1))
    ELSE Dec(13, 1)

\* The widgets whose range is fixed in main(): <<min_value, max_value>>.
FixedRange ==
    [tlc           |-> <<Dec(1, 1), Dec(50, 1)>>,
     lymph_percent |-> <<Dec(5, 1), Dec(90, 1)>>,
     hct           |-> <<Dec(20, 1), Dec(60, 1)>>,
     lamp_power    |-> <<Dec(5, 1), Dec(50, 1)>>,
     target_dose   |-> <<Dec(1, 10), Dec(10, 1)>>]

\* The sliders main() builds from APHERESIS_SETTINGS[system]: the request
\* field and the table entry that gives its range.
RangeKey ==
    [interface_pos  |-> "interface_range",
     flow_rate      |-> "flow_range",
     plasma_removal |-> "plasma_removal_range",
     acd_ratio      |-> "acd_ratio_range"]

DeviceFields == DOMAIN RangeKey

\* A device slider's <<min, max, value>> arguments for the given hct and system.
SliderArgs(f, hct, system, SETTINGS) ==
    LET range == SETTINGS[system][RangeKey[f]]
        dflt  == CASE f = "interface_pos"  -> InterfaceDefault(hct, system)
                   [] f = "flow_rate"      -> FlowDefault(hct, system)
                   [] f = "plasma_removal" -> PlasmaDefault
                   [] f = "acd_ratio"      -> AcdDefault(hct, system)
    IN  <<range[1], range[2], dflt>>

\* The widget values of the script's first run: Streamlit's value= arguments
\* and the first option of each selectbox.
DefaultRequest ==
    [tlc            |-> Dec(8, 1),
     lymph_percent  |-> Dec(30, 1),
     hct            |-> Dec(40, 1),
     system         |-> "Spectra Optia",
     lamp_power     |-> Dec(25, 1),
     target_dose    |-> Dec(25, 10),
     use_hood       |-> TRUE,
     bag_type       |-> "Spectra Optia (Polyethylene)",
     interface_pos  |-> InterfaceDefault(Dec(40, 1), "Spectra Optia"),
     flow_rate      |-> FlowDefault(Dec(40, 1), "Spectra Optia"),
     plasma_removal |-> PlasmaDefault,
     acd_ratio      |-> AcdDefault(Dec(40, 1), "Spectra Optia")]

\* The request after the user sets widget f to v.  A device slider whose
\* min, max or value argument changes with the new hct or system is a new
\* widget to Streamlit and shows its default.
WidgetRequest(r, f, v, SETTINGS) ==
    LET r1 == [r EXCEPT ![f] = v]
    IN  [g \in DOMAIN r |->
            IF g \in DeviceFields /\ g # f
               /\ SliderArgs(g, r1.hct, r1.system, SETTINGS)
                    # SliderArgs(g, r.hct, r.system, SETTINGS)
            THEN SliderArgs(g, r1.hct, r1.system, SETTINGS)[3]
            ELSE r1[g]]

\* Whether v is a value widget f can take for request r.
WidgetAllows(r, f, v, SETTINGS) ==
    CASE f \in DOMAIN FixedRange ->
            FixedRange[f][1] <= v /\ v <= FixedRange[f][2]
      [] f \in DeviceFields ->
            SETTINGS[r.system][RangeKey[f]][1] <= v
            /\ v <= SETTINGS[r.system][RangeKey[f]][2]
      [] f = "system"   -> v \in DOMAIN SETTINGS
      [] f = "bag_type" -> v \in BagNames
      [] f = "use_hood" -> v \in BOOLEAN

\* The number of points of each curve: np.linspace(..., 100).
CurveSamples == 100

\* LinspacePoint that skips the start point.
LinspacePointFromOne(start, stop, num, i) ==
    start + (i + 1) * Div(stop - start, Dec(num - 1, 1))

\* np.linspace(start, stop, num)[i] for a finite stop: start + i * step.
LinspacePoint(start, stop, num, i) == start + i * Div(stop - start, Dec(num - 1, 1))

\* 100 * np.exp(-k * x * transmission * purity): T-cell viability on the dose curve.
DoseViabilityT(x, res) ==
    Mul(Dec(100, 1), Exp(Mul(Mul(Mul(-Dec(1, 1), x), res.transmission), res.purity_factor)))

\* 100 * np.exp(-0.25 * x * transmission): monocyte viability on the dose curve.
DoseViabilityM(x, res) ==
    Mul(Dec(100, 1), Exp(Mul(Mul(-Dec(25, 100), x), res.transmission)))

\* time_doses = (effective_intensity/1000) * (times * 60)
TimeDose(t, res) ==
    Mul(Div(res.effective_intensity, Dec(1000, 1)), Mul(t, Dec(60, 1)))

\* 100 * np.exp(-1.0 * time_doses * purity_factor)
TimeViabilityT(t, res) ==
    Mul(Dec(100, 1), Exp(Mul(Mul(-Dec(1, 1), TimeDose(t, res)), res.purity_factor)))

\* 100 * np.exp(-0.25 * time_doses)
TimeViabilityM(t, res) ==
    Mul(Dec(100, 1), Exp(Mul(-Dec(25, 100), TimeDose(t, res))))

\* The end of the time axis: max(results['exp_time']*2, 90), exp_time finite.
TimeAxisEnd(res) == Max(Mul(res.exp_time.v, Dec(2, 1)), Dec(90, 1))

\* ------------------------------------------------------------- the state

VARIABLES
    APHERESIS_SETTINGS,  \* the module-level device table (a mutable dict)
    BAG_TYPES,           \* the module-level bag table (a mutable dict)
    req,                 \* the arguments of the current call
    res,                 \* what the current call returned
    pc,                  \* "ready" (call pending), "done" (returned), "plotted"
    first,               \* the first call of the run: its arguments and result
    other,               \* whether a call with other arguments has run since
    curves               \* the leading points of the two plotted curves

vars == <<APHERESIS_SETTINGS, BAG_TYPES, req, res, pc, first, other, curves>>

NoResult == [outcome |-> "none"]
NoCall   == [called |-> FALSE]
NoCurves == [drawn |-> FALSE]

\* How many leading points of each 100-point curve the state keeps.
CurvePoints == 3

\* How many neighbouring values above the current one a comparison probes.
ProbeSteps == 3

\* The argument values a caller of calculate_ecp_uvc passes: inside and
\* outside the device ranges, physical or not.
CallerValues ==
    [tlc            |-> {Dec(8, 1), Dec(50, 1)},
     lymph_percent  |-> {Dec(30, 1), Dec(90, 1)},
     hct            |-> {-Dec(20, 1), Dec(20, 1), Dec(40, 1), Dec(60, 1), Dec(100, 1)},
     system         |-> Systems,
     lamp_power     |-> {0, Dec(25, 1)},
     target_dose    |-> {0, Dec(25, 10)},
     use_hood       |-> BOOLEAN,
     bag_type       |-> BagNames,
     interface_pos  |-> {Dec(5, 10), Dec(1, 1), Dec(25, 10)},
     flow_rate      |-> {Dec(30, 1), Dec(50, 1), Dec(70, 1)},
     plasma_removal |-> {Dec(5, 1), Dec(15, 1), Dec(25, 1), Dec(30, 1)},
     acd_ratio      |-> {Dec(13, 1), Dec(16, 1)}]

\* The values the user moves the widgets of main() to.
WidgetValues ==
    [tlc            |-> {Dec(8, 1), Dec(50, 1)},
     lymph_percent  |-> {Dec(30, 1)},
     hct            |-> {Dec(20, 1), Dec(40, 1), Dec(60, 1)},
     system         |-> Systems,
     lamp_power     |-> {Dec(5, 1), Dec(25, 1)},
     target_dose    |-> {Dec(1, 10), Dec(25, 10)},
     use_hood       |-> BOOLEAN,
     bag_type       |-> BagNames,
     interface_pos  |-> {Dec(5, 10), Dec(2, 1)},
     flow_rate      |-> {Dec(40, 1), Dec(65, 1), Dec(70, 1)},
     plasma_removal |-> {Dec(5, 1), Dec(20, 1), Dec(25, 1)},
     acd_ratio      |-> {Dec(13, 1)}]

Fields == DOMAIN CallerValues

Init ==
    /\ APHERESIS_SETTINGS = InitialSettings
    /\ BAG_TYPES = InitialBags
    /\ req = DefaultRequest
    /\ res = NoResult
    /\ pc = "ready"
    /\ first = NoCall
    /\ other = FALSE
    /\ curves = NoCurves

\* One call of calculate_ecp_uvc(req) from entry to return.
Calculate ==
    /\ pc = "ready"
    /\ res' = calculate_ecp_uvc(req, APHERESIS_SETTINGS, BAG_TYPES)
    /\ APHERESIS_SETTINGS' = SettingsAfterCall(APHERESIS_SETTINGS, req.system)
    /\ BAG_TYPES' = BagsAfterCall(BAG_TYPES, req.bag_type)
    /\ first' = IF first = NoCall THEN [called |-> TRUE, req |-> req, res |-> res']
                ELSE first
    /\ pc' = "done"
    /\ UNCHANGED <<req, other, curves>>

\* A caller prepares the next call: the last arguments with f set to v.
Call(f, v) ==
    /\ pc = "done"
    /\ v \in CallerValues[f]
    /\ req' = [req EXCEPT ![f] = v]
    /\ res' = NoResult
    /\ pc' = "ready"
    /\ other' = (other \/ req' # first.req)
    /\ UNCHANGED <<APHERESIS_SETTINGS, BAG_TYPES, first, curves>>

\* The leading points of the dose-response curve.
DoseCurve(r) ==
    [i \in 1..CurvePoints |->
        LET x == LinspacePoint(0, Dec(5, 1), CurveSamples, i - 1)
        IN  [x |-> x, tcells |-> DoseViabilityT(x, r), monocytes |-> DoseViabilityM(x, r)]]

\* The leading points of the time-response curve.
TimeCurve(r) ==
    [i \in 1..CurvePoints |->
        LET t == LinspacePoint(0, TimeAxisEnd(r), CurveSamples, i - 1)
        IN  [x |-> t, tcells |-> TimeViabilityT(t, r), monocytes |-> TimeViabilityM(t, r)]]

\* main() after the call: the two plots.
Plot ==
    /\ pc = "done"
    /\ curves' = [drawn |-> TRUE, dose |-> DoseCurve(res), time |-> TimeCurve(res)]
    /\ pc' = "plotted"
    /\ UNCHANGED <<APHERESIS_SETTINGS, BAG_TYPES, req, res, first, other>>

\* The user moves widget f to v; Streamlit reruns the script.
SetWidget(f, v) ==
    /\ pc = "plotted"
    /\ v \in WidgetValues[f]
    /\ WidgetAllows(req, f, v, APHERESIS_SETTINGS)
    /\ req' = WidgetRequest(req, f, v, APHERESIS_SETTINGS)
    /\ res' = NoResult
    /\ curves' = NoCurves
    /\ pc' = "ready"
    /\ other' = (other \/ req' # first.req)
    /\ UNCHANGED <<APHERESIS_SETTINGS, BAG_TYPES, first>>

\* calculate_ecp_uvc under any caller.
Next == Calculate \/ \E f \in Fields : \E v \in CallerValues[f] : Call(f, v)

Spec == Init /\ [][Next]_vars

\* The Streamlit script: widgets, the call, the plots.
NextMain == Calculate \/ Plot \/ \E f \in Fields : \E v \in WidgetValues[f] : SetWidget(f, v)

SpecMain == Init /\ [][NextMain]_vars

\* The fixed-point grid is fine enough for the inputs above: a positive lamp
\* power never rounds to a zero intensity.
GridAdequate ==
    pc # "ready" /\ req.lamp_power > 0
        => Div(res.effective_intensity, Dec(1000, 1)) > 0 /\ res.exp_time.k = "fin"
\* ------------------------------------------------------------ the claims

Params == APHERESIS_SETTINGS[req.system]
Bag == BAG_TYPES[req.bag_type]

\* Whether v lies in the closed range rng = <<lo, hi>>.
Within(v, rng) == rng[1] <= v /\ v <= rng[2]

\* Every device-ranged field of r lies in the range its device declares.
InDeclaredRanges(r, SETTINGS) ==
    \A f \in DeviceFields : Within(r[f], SETTINGS[r.system][RangeKey[f]])

\* r is a request main() can build from its widgets.
InWidgetRanges(r, SETTINGS) ==
    /\ InDeclaredRanges(r, SETTINGS)
    /\ \A f \in DOMAIN FixedRange : Within(r[f], FixedRange[f])

\* The values step, 2*step, ... above v that a comparison probes.
Above(v, step) == {v + i * step : i \in 1..ProbeSteps}

HctStep == Dec(5, 1)
PlasmaStep == Dec(5, 1)
AbsorptionStep == Dec(4, 10)
ScatteringStep == Dec(15, 10)
ThicknessStep == Dec(5, 100)

\* The shielding term of the current result.
ResShielding == Shielding(res.mnc_conc, res.rbc_contam, req.hct)

\* C1 (as claimed): a request with a field outside its device's declared range,
\* or with a hematocrit efficiency that is not positive, ends in a validation
\* error and returns no result record.
C1_ValidationErrorSurfaced ==
    pc = "done"
    /\ (~InDeclaredRanges(req, APHERESIS_SETTINGS)
        \/ HctEfficiency(Params, req.hct) <= 0)
        => res.outcome = "ValidationError"

\* C2 (as claimed): a call whose effective UV intensity is zero ends in a
\* degenerate-result error and never returns a record whose exp_time is
\* infinite or not a number.
C2_DegenerateResultReported ==
    pc = "done" /\ res.effective_intensity = 0
        => /\ res.outcome = "DegenerateResultError"
           /\ ~(res.outcome = "returned" /\ res.exp_time.k # "fin")

\* C3: for a non-negative target dose and any shielding, the returned
\* effective_dose is at least target_dose * transmission * 0.3.
C3_DoseFloor ==
    pc = "done" /\ req.target_dose >= 0
        => res.effective_dose
             >= Mul(Mul(req.target_dose, res.transmission), Dec(3, 10))

\* C3 witness: a returned result with a positive dose whose shielding exceeds
\* 0.7, so that the clamp decides the dose.
C3_ClampActive ==
    /\ pc = "done"
    /\ req.target_dose > 0
    /\ ResShielding > Dec(7, 10)
    /\ res.effective_dose = Mul(Mul(req.target_dose, res.transmission), Dec(3, 10))

C7_CurvesStartAtFullViability ==
    pc = "plotted"
        => /\ curves.dose[1] = [x |-> 0, tcells |-> Dec(100, 1), monocytes |-> Dec(100, 1)]
           /\ curves.time[1] = [x |-> 0, tcells |-> Dec(100, 1), monocytes |-> Dec(100, 1)]

\* C7 witness: plotted curves for a request other than the default one, which
\* decay after their first point.
C7_DecayingCurves ==
    /\ pc = "plotted"
    /\ req.system = "Haemonetics"
    /\ req.hct = Dec(60, 1)
    /\ curves.dose[2].x > 0
    /\ curves.dose[2].tcells < curves.dose[2].monocytes
    /\ curves.dose[2].monocytes < Dec(100, 1)
    /\ curves.time[2].x > 0
    /\ curves.time[2].tcells < curves.time[2].monocytes
    /\ curves.time[2].monocytes < Dec(100, 1)

\* C8: no call changes APHERESIS_SETTINGS or BAG_TYPES, and a call with the
\* arguments of the run's first call returns the record the first call
\* returned, whatever calls ran in between.
C8_PureFunction ==
    /\ APHERESIS_SETTINGS = InitialSettings
    /\ BAG_TYPES = InitialBags
    /\ pc = "done" /\ req = first.req => res = first.res

\* C8 witness: the first call's arguments called again after a call with
\* other arguments.
C8_RepeatedAfterOtherCalls ==
    /\ pc = "done"
    /\ other
    /\ req = first.req
    /\ res = first.res

\* C9: a request with hematocrit exactly 40 yields hct_efficiency exactly 1.0,
\* for either device and any other arguments.
C9_ReferenceHematocrit ==
    pc = "done" /\ req.hct = Dec(40, 1) => res.hct_efficiency = ONE

\* C9 witness: a returned result at hematocrit 40 on the device with the larger
\* hct_impact, with other arguments off their defaults.
C9_HaemoneticsAtForty ==
    /\ pc = "done"
    /\ req.hct = Dec(40, 1)
    /\ req.system = "Haemonetics"
    /\ Params.hct_impact = Dec(7, 10)
    /\ req.flow_rate # DefaultRequest.flow_rate
    /\ res.hct_efficiency = ONE

\* C10: for a request inside the widget ranges, hct_efficiency is positive,
\* mnc_conc, rbc_contam and the shielding are not negative, and effective_dose
\* is at most target_dose * transmission.
C10_BoundInsideWidgetRanges ==
    pc = "done" /\ InWidgetRanges(req, APHERESIS_SETTINGS)
        => /\ res.hct_efficiency > 0
           /\ res.mnc_conc >= 0
           /\ res.rbc_contam >= 0
           /\ ResShielding >= 0
           /\ res.effective_dose <= Mul(req.target_dose, res.transmission)

\* C10 witness: an in-range request whose shielding is positive and whose
\* effective dose is strictly below target_dose * transmission.
C10_ShieldedInRange ==
    /\ pc = "done"
    /\ InWidgetRanges(req, APHERESIS_SETTINGS)
    /\ res.mnc_conc > 0
    /\ ResShielding > 0
    /\ res.effective_dose < Mul(req.target_dose, res.transmission)

\* C10, second half: outside the ranges the bound is not an invariant.  This
\* formula is violated: a flow rate below the range minimum gives a negative
\* shielding and an effective dose above target_dose * transmission.
C10_BoundEverywhere ==
    pc = "done"
        => ResShielding >= 0
           /\ res.effective_dose <= Mul(req.target_dose, res.transmission)
====
